---------------------------- MODULE Spec2Model ----------------------------
(***************************************************************************)
(* Delfos ETL pipeline: one calendar-day partition run                     *)
(*   extract (HTTP source API) -> aggregate (10 minute buckets)            *)
(*   -> normalize (wide to long) -> resolve (signal name -> id)            *)
(*   -> load (append to the fact table in batches).                        *)
(* Two orchestrators drive a run: ETLProcessor.process_date                *)
(* (etl/etl_process.py) and the scheduled asset processed_sensor_data      *)
(* (dagster/assets.py).                                                    *)
(*                                                                         *)
(* Time is counted in minutes from 00:00 of day 0.  A statistic is a       *)
(* rational [num, den]; den = 0 is NaN (undefined).  The std column holds  *)
(* the sample variance (ddof = 1), i.e. the square of what pandas stores.  *)
(***************************************************************************)
EXTENDS Integers, Sequences, FiniteSets

\* ---- program constants
BucketWidth == 10
MinutesPerDay == 1440
ChunkSize == 1000

\* ---- bounds of the model
MaxRuns == 2
MaxSamples == 2
MaxChunk == 2
MaxVars == 2

\* The instants at which the source store may hold a sample: two in the
\* first bucket of day 0, one two buckets later, one at 00:00 of day 1.
Instants == {0, 1, 20, MinutesPerDay}
WindVals == {2, 3}
Dates == {0, 1}
ChunkSizes == (1..MaxChunk) \cup {ChunkSize}

VARIABLES
    source,          \* source store: set of rows [timestamp, wind_speed, power]
    signal,          \* target store, signal table: set of rows [id, name]
    data,            \* target store, fact table: sequence of committed rows
    chunksize,       \* rows per write batch of to_sql
    signal_mapping,  \* ETLProcessor.signal_mapping: set of [name, id]
    loaded,          \* history: load_signal_mapping has returned on this processor
    entry,           \* orchestrator of the current run
    date,            \* partition (day number) of the current run
    pc,              \* stage of the current run
    raw_data,        \* extracted frame: sequence of source rows
    aggregated_df,   \* wide frame after dropna(how='all')
    long_df,         \* long frame after melt and dropna
    df_to_insert,    \* resolved rows [timestamp, signal_id, value]
    unmapped_signals,\* distinct names without id, in order of appearance
    tx,              \* rows written in the open transaction of to_sql
    result,          \* the run's result dictionary
    runs,            \* number of runs started
    events,          \* history: the external calls and stages of this run
    batches,         \* history: the write batches issued in this run
    fault,           \* history: description of the fault raised in this run
    at_start,        \* history: fact and signal table when this run started
    prev,            \* history: summary of the previous run, if it succeeded
    argv,            \* command line of the process that runs, if any
    exit_code,       \* exit code of that process, NoKey while it runs
    request,         \* the last GET /data/ of another client of the source API
    response,        \* the answer to it
    other            \* the local state of a second run that is not stepping

vars == <<source, signal, data, chunksize, signal_mapping, loaded, entry,
          date, pc,
          raw_data, aggregated_df, long_df, df_to_insert, unmapped_signals,
          tx, result, runs, events, batches, fault, at_start, prev,
          argv, exit_code, request, response, other>>

\* ---- sequences and arithmetic ----------------------------------------

Min2(a, b) == IF a <= b THEN a ELSE b

RECURSIVE GCD(_, _)
GCD(a, b) == IF b = 0 THEN a ELSE GCD(b, a % b)

NaN == [num |-> 0, den |-> 0]

\* n / d as a reduced fraction, d > 0, n >= 0
Rat(n, d) ==
    LET g == GCD(n, d) IN [num |-> n \div g, den |-> d \div g]

RECURSIVE SumSeq(_)
SumSeq(s) == IF s = <<>> THEN 0 ELSE Head(s) + SumSeq(Tail(s))

RECURSIVE MinSeq(_)
MinSeq(s) ==
    IF Len(s) = 1 THEN s[1]
    ELSE LET m == MinSeq(Tail(s)) IN IF s[1] <= m THEN s[1] ELSE m

RECURSIVE MaxSeq(_)
MaxSeq(s) ==
    IF Len(s) = 1 THEN s[1]
    ELSE LET m == MaxSeq(Tail(s)) IN IF s[1] >= m THEN s[1] ELSE m

RECURSIVE FlattenSeq(_)
FlattenSeq(ss) == IF ss = <<>> THEN <<>> ELSE Head(ss) \o FlattenSeq(Tail(ss))

\* the rows of a set of timestamped rows, ORDER BY timestamp
RECURSIVE OrderByTimestamp(_)
OrderByTimestamp(S) ==
    IF S = {} THEN <<>>
    ELSE LET r == CHOOSE x \in S : \A y \in S : x.timestamp <= y.timestamp
         IN <<r>> \o OrderByTimestamp(S \ {r})

\* ---- source store and source API --------------------------------------

\* power as the seed derives it from wind_speed (noise left out)
PowerOf(w) == IF w < 3 THEN 0 ELSE IF w > 20 THEN 2000 ELSE w * w * 8

Sample(t, w) == [timestamp |-> t, wind_speed |-> w, power |-> PowerOf(w)]

\* the source stores: at most MaxSamples rows, one per instant
Sources ==
    { {Sample(t, f[t]) : t \in T} :
        f \in [Instants -> WindVals],
        T \in {X \in SUBSET Instants : Cardinality(X) <= MaxSamples} }

\* SELECT ... WHERE timestamp >= start AND timestamp <= end ORDER BY timestamp
get_data_with_filters(start_date, end_date) ==
    OrderByTimestamp({r \in source :
        r.timestamp >= start_date /\ r.timestamp <= end_date})

\* start_date and end_date of a partition
StartOf(d) == d * MinutesPerDay
EndOf(d) == StartOf(d) + MinutesPerDay

\* ---- GET /data/ of the source API -------------------------------------

\* the columns of the source table
valid_variables == <<"timestamp", "wind_speed", "power", "ambient_temprature">>

\* names a client may ask for: the columns, a name the table does not have,
\* and the empty name that "a," or "," splits into
VariableNames ==
    {valid_variables[i] : i \in 1..Len(valid_variables)} \cup {"humidity", ""}

\* the variables parameter after split(',') and strip(); <<>> when it is
\* absent or empty
VariableLists == UNION {[1..n -> VariableNames] : n \in 0..MaxVars}

StartDates == {"", "2025-08-10T00:00:00", "10/08/2025"}
EndDates == {"", "2025-08-11T00:00:00"}

\* datetime.fromisoformat as minutes from 00:00 of day 0; a negative number
\* is ValueError
fromisoformat(text) ==
    CASE text = "2025-08-10T00:00:00" -> 0
      [] text = "2025-08-11T00:00:00" -> MinutesPerDay
      [] OTHER -> 0 - 1

\* the ambient temperature of the seed (daily wave and noise left out)
AmbientOf(r) == 20

\* the cell of source row r in column c
Cell(r, c) ==
    CASE c = "timestamp" -> r.timestamp
      [] c = "wind_speed" -> r.wind_speed
      [] c = "power" -> r.power
      [] OTHER -> AmbientOf(r)

\* SELECT columns FROM data WHERE 1=1 [AND timestamp >= start]
\* [AND timestamp <= end] ORDER BY timestamp; "" is a bound not given
Select(columns, start_date, end_date) ==
    LET rows == OrderByTimestamp({r \in source :
                   /\ start_date = "" \/ r.timestamp >= fromisoformat(start_date)
                   /\ end_date = "" \/ r.timestamp <= fromisoformat(end_date)})
        names == {columns[i] : i \in 1..Len(columns)}
    IN [i \in 1..Len(rows) |-> [c \in names |-> Cell(rows[i], c)]]

Answer(status, rows, queried) ==
    [status |-> status, data |-> rows, queried |-> queried]

\* (variant) no name is held to be invalid
invalid_vars_none(variable_list) == <<>>

\* [v for v in variable_list if v not in valid_variables]
invalid_vars(variable_list) ==
    SelectSeq(variable_list,
              LAMBDA v : \A i \in 1..Len(valid_variables) :
                            v # valid_variables[i])

\* the answers of get_data: 400 for a date that does not parse or a name
\* outside valid_variables, without a query; else the rows of the query, or
\* 500 when the query fails, as it does for a column the table does not have
get_data(start_date, end_date, variable_list) ==
    IF start_date # "" /\ fromisoformat(start_date) < 0
    THEN {Answer(400, <<>>, FALSE)}
    ELSE IF end_date # "" /\ fromisoformat(end_date) < 0
    THEN {Answer(400, <<>>, FALSE)}
    ELSE IF variable_list # <<>> /\ invalid_vars(variable_list) # <<>>
    THEN {Answer(400, <<>>, FALSE)}
    ELSE LET columns == IF variable_list = <<>> THEN valid_variables
                        ELSE variable_list
         IN IF \E i \in 1..Len(columns) :
                  \A j \in 1..Len(valid_variables) :
                      columns[i] # valid_variables[j]
            THEN {Answer(500, <<>>, TRUE)}
            ELSE {Answer(200, Select(columns, start_date, end_date), TRUE),
                  Answer(500, <<>>, TRUE)}

\* ---- transform: resample('10T').agg, concat, dropna, melt, dropna -----

\* (variant) the standard deviation columns are named after the pandas
\* function names
ColumnsStddev == <<"wind_speed_mean", "wind_speed_min", "wind_speed_max",
                   "wind_speed_stddev", "power_mean", "power_min",
                   "power_max", "power_stddev">>

\* the column names transform_data assigns, wind_speed before power
Columns == <<"wind_speed_mean", "wind_speed_min", "wind_speed_max",
             "wind_speed_std", "power_mean", "power_min", "power_max",
             "power_std">>

\* (variant) origin='start': the bins are anchored to the first timestamp of
\* the extracted frame
BinOfFromFirst(t) ==
    LET t0 == raw_data[1].timestamp
    IN IF t >= t0 THEN t - ((t - t0) % BucketWidth)
       ELSE t0 - (((t0 - t) + BucketWidth - 1) \div BucketWidth) * BucketWidth

\* start of the 10 minute bin of instant t (bins are anchored to midnight)
BinOf(t) == t - (t % BucketWidth)

\* the values of one column of df that fall in the bin starting at b
BinValues(df, b, metric) ==
    LET inbin == SelectSeq(df, LAMBDA r : BinOf(r.timestamp) = b)
    IN [i \in 1..Len(inbin) |->
            IF metric = "wind_speed" THEN inbin[i].wind_speed
            ELSE inbin[i].power]

\* (variant) the mean in integer arithmetic
MeanTruncated(v) == IF Len(v) = 0 THEN NaN ELSE Rat(SumSeq(v) \div Len(v), 1)

Mean(v) == IF Len(v) = 0 THEN NaN ELSE Rat(SumSeq(v), Len(v))
MinOf(v) == IF Len(v) = 0 THEN NaN ELSE Rat(MinSeq(v), 1)
MaxOf(v) == IF Len(v) = 0 THEN NaN ELSE Rat(MaxSeq(v), 1)
\* (variant) ddof=0: the population variance, 0 for a single value
StdPopulation(v) ==
    IF Len(v) < 1 THEN NaN
    ELSE LET k == Len(v)
             s == SumSeq(v)
             q == SumSeq([i \in 1..k |-> v[i] * v[i]])
         IN Rat(k * q - s * s, k * k)

\* sample variance, NaN with fewer than two values
Std(v) ==
    IF Len(v) < 2 THEN NaN
    ELSE LET k == Len(v)
             s == SumSeq(v)
             q == SumSeq([i \in 1..k |-> v[i] * v[i]])
         IN Rat(k * q - s * s, k * (k - 1))

Agg(v) == <<Mean(v), MinOf(v), MaxOf(v), Std(v)>>

\* one row of the wide frame: the bin label and the eight statistics
WideRow(df, b) ==
    [timestamp |-> b,
     stats |-> Agg(BinValues(df, b, "wind_speed"))
               \o Agg(BinValues(df, b, "power"))]

\* resample materialises every bin from the earliest sample's to the
\* latest's, whatever the order of the rows
Bins(df) ==
    LET ts == [i \in 1..Len(df) |-> df[i].timestamp]
        first == BinOf(MinSeq(ts))
        last == BinOf(MaxSeq(ts))
    IN [i \in 1..((last - first) \div BucketWidth + 1) |->
            first + (i - 1) * BucketWidth]

\* aggregated_df after dropna(how='all')
ResampleAgg(df) ==
    LET bins == Bins(df)
        wide == [i \in 1..Len(bins) |-> WideRow(df, bins[i])]
    IN SelectSeq(wide, LAMBDA w : \E c \in 1..Len(Columns) : w.stats[c] # NaN)

\* (variant) melt without the final dropna
MeltKeepNaN(agg) ==
    LET col(c) == [i \in 1..Len(agg) |->
                      [timestamp |-> agg[i].timestamp,
                       signal_name |-> Columns[c],
                       value |-> agg[i].stats[c]]]
    IN FlattenSeq([c \in 1..Len(Columns) |-> col(c)])

\* melt: column after column, the rows in frame order; then dropna
Melt(agg) ==
    LET col(c) == [i \in 1..Len(agg) |->
                      [timestamp |-> agg[i].timestamp,
                       signal_name |-> Columns[c],
                       value |-> agg[i].stats[c]]]
        long == FlattenSeq([c \in 1..Len(Columns) |-> col(c)])
    IN SelectSeq(long, LAMBDA r : r.value # NaN)

\* ---- resolve: signal_name -> signal_id ---------------------------------

\* the names of signals_data in insert_initial_signals
signals_data == <<"wind_speed_mean", "wind_speed_min", "wind_speed_max",
                  "wind_speed_std", "power_mean", "power_min", "power_max",
                  "power_std">>

\* the rows insert_initial_signals adds, ids in insertion order
InitialSignals ==
    {[id |-> i, name |-> signals_data[i]] : i \in 1..Len(signals_data)}

\* a signal table provisioned by hand with the wind_speed signals only
WindSignals == {r \in InitialSignals : r.id <= 4}

Names(mapping) == {r.name : r \in mapping}

IdOf(mapping, name) == (CHOOSE r \in mapping : r.name = name).id

\* df['signal_id'] = df['signal_name'].map(mapping); dropna(subset=['signal_id']);
\* df[['timestamp', 'signal_id', 'value']]
MapSignals(df, mapping) ==
    LET kept == SelectSeq(df, LAMBDA r : r.signal_name \in Names(mapping))
    IN [i \in 1..Len(kept) |->
            [timestamp |-> kept[i].timestamp,
             signal_id |-> IdOf(mapping, kept[i].signal_name),
             value |-> kept[i].value]]

\* df[df['signal_id'].isna()]['signal_name'].unique()
RECURSIVE Unique(_)
Unique(s) ==
    IF s = <<>> THEN <<>>
    ELSE <<Head(s)>> \o Unique(SelectSeq(Tail(s), LAMBDA x : x # Head(s)))

\* (variant) the absent names are listed once per row, without unique()
UnmappedRows(df, mapping) ==
    LET lost == SelectSeq(df, LAMBDA r : r.signal_name \notin Names(mapping))
    IN [i \in 1..Len(lost) |-> lost[i].signal_name]

Unmapped(df, mapping) ==
    LET lost == SelectSeq(df, LAMBDA r : r.signal_name \notin Names(mapping))
    IN Unique([i \in 1..Len(lost) |-> lost[i].signal_name])

\* ---- load: DataFrame.to_sql(if_exists='append', method='multi', chunksize)

\* the loop of to_sql: chunks = nrows // chunksize + 1, chunk i covers rows
\* start_i = i * chunksize .. end_i = min((i + 1) * chunksize, nrows), and the
\* loop stops at the first empty chunk
\* (variant) every chunk starts one row late
ChunkStartLate(i, size) == i * size + 1

ChunkStart(i, size) == i * size
ChunkEnd(i, size, nrows) == Min2((i + 1) * size, nrows)

\* (variant) chunks = nrows // chunksize: the partial last chunk is not written
NumChunksNoTail(nrows, size) ==
    Cardinality({i \in 0..((nrows \div size) - 1) :
        ChunkStart(i, size) < ChunkEnd(i, size, nrows)})

NumChunks(nrows, size) ==
    Cardinality({i \in 0..(nrows \div size) :
        ChunkStart(i, size) < ChunkEnd(i, size, nrows)})

\* the k-th write batch (k = 1, 2, ...) of frame df
Chunk(df, k, size) ==
    SubSeq(df, ChunkStart(k - 1, size) + 1, ChunkEnd(k - 1, size, Len(df)))

\* ---- results ------------------------------------------------------------

NoKey == 0 - 1

Result(status, processed, inserted, intervals, error) ==
    [status |-> status, records_processed |-> processed,
     records_inserted |-> inserted, intervals_processed |-> intervals,
     error |-> error]

NoResult == Result("none", 0, 0, NoKey, "")

\* the dictionaries the two orchestrators return; process_date leaves
\* intervals_processed out of its no_data and error results
\* (variant) an empty extraction reported as a success
NoDataAsSuccess ==
    Result("success", 0, 0, IF entry = "asset" THEN 0 ELSE NoKey, "")

NoData == Result("no_data", 0, 0, IF entry = "asset" THEN 0 ELSE NoKey, "")
\* (variant) the error result without the fault description
ErrorResultNoDetail(e) ==
    Result("error", 0, 0, IF entry = "asset" THEN 0 ELSE NoKey, "")

ErrorResult(e) == Result("error", 0, 0, IF entry = "asset" THEN 0 ELSE NoKey, e)
NoValidData == Result("no_valid_data", Len(raw_data), 0, 0, "")
\* process_date counts len(transformed_data) // 8, the asset len(aggregated_df)
Success(inserted) ==
    Result("success", Len(raw_data), inserted,
           IF entry = "asset" THEN Len(aggregated_df)
           ELSE Len(long_df) \div 8, "")

Terminal == {"Done", "Error"}

\* ---- initial state ------------------------------------------------------

NoPrev == [date |-> NoKey, status |-> "none", records_inserted |-> 0,
           data |-> <<>>, signal |-> {}]

NoRequest == [start_date |-> "", end_date |-> "", variables |-> <<>>]
NoResponse == Answer(0, <<>>, FALSE)

\* no command line: the orchestrator is called from a program of its own
NoArgv == [program |-> "none", date |-> ""]

\* the state that is local to a run (its process)
Local ==
    [entry |-> entry, date |-> date, pc |-> pc, raw_data |-> raw_data,
     aggregated_df |-> aggregated_df, long_df |-> long_df,
     df_to_insert |-> df_to_insert, unmapped_signals |-> unmapped_signals,
     tx |-> tx, result |-> result, events |-> events, batches |-> batches,
     fault |-> fault, at_start |-> at_start]

Init ==
    /\ source \in Sources
    /\ signal \in {{}, WindSignals}
    /\ data = <<>>
    /\ chunksize \in ChunkSizes
    /\ signal_mapping = {}
    /\ loaded = FALSE
    /\ entry = "process_date"
    /\ date = 0
    /\ pc = "Idle"
    /\ raw_data = <<>>
    /\ aggregated_df = <<>>
    /\ long_df = <<>>
    /\ df_to_insert = <<>>
    /\ unmapped_signals = <<>>
    /\ tx = <<>>
    /\ result = NoResult
    /\ runs = 0
    /\ events = <<>>
    /\ batches = <<>>
    /\ fault = ""
    /\ at_start = [data |-> <<>>, signal |-> {}]
    /\ prev = NoPrev
    /\ argv = NoArgv
    /\ exit_code = NoKey
    /\ request = NoRequest
    /\ response = NoResponse
    /\ other = Local

\* ---- the stages of a run --------------------------------------------------

\* what every step of a run leaves alone
\* the state of the other entry points
Outside == <<argv, exit_code, request, response, other>>

Stores == <<source, chunksize, entry, date, runs, at_start, prev, Outside>>

\* the same and the history of the processor's snapshot
Kept == <<Stores, loaded>>

\* (variant) no except clause: the fault leaves the orchestrator and the run
\* ends without a result
RaisePropagates(e) ==
    /\ pc' = "Aborted"
    /\ result' = result
    /\ fault' = e
    /\ tx' = <<>>

\* (variant) a fault restarts the run at the extraction
RaiseRetry(e) ==
    /\ pc' = "Extracting"
    /\ result' = result
    /\ fault' = e
    /\ tx' = <<>>

\* a fault in a stage: the except clause of the orchestrator builds the error
\* result; an open to_sql transaction is rolled back
Raise(e) ==
    /\ pc' = "Error"
    /\ result' = ErrorResult(e)
    /\ fault' = e
    /\ tx' = <<>>

\* (variant) the signals are inserted without a look at the table
ProvisionedAgain(sig) ==
    sig \cup {[id |-> Cardinality(sig) + i, name |-> signals_data[i]] :
                 i \in 1..Len(signals_data)}

\* insert_initial_signals on a signal table holding sig
Provisioned(sig) == IF Cardinality(sig) > 0 THEN sig ELSE InitialSignals

\* prepare_alvo_db.main between two runs
Provision ==
    /\ pc \in Terminal \cup {"Idle"}
    /\ signal' = Provisioned(signal)
    /\ UNCHANGED <<source, data, chunksize, signal_mapping, loaded, entry,
                   date, pc,
                   raw_data, aggregated_df, long_df, df_to_insert,
                   unmapped_signals, tx, result, runs, events, batches,
                   fault, at_start, prev, Outside>>

\* ETLProcessor.__init__: a new processor starts without a registry snapshot
NewProcessor ==
    /\ pc \in Terminal \cup {"Idle"}
    /\ signal_mapping # {} \/ loaded
    /\ signal_mapping' = {}
    /\ loaded' = FALSE
    /\ UNCHANGED <<source, signal, data, chunksize, entry, date, pc,
                   raw_data, aggregated_df, long_df, df_to_insert,
                   unmapped_signals, tx, result, runs, events, batches,
                   fault, at_start, prev, Outside>>

\* the start of a run of orchestrator e for partition d, the signal table
\* holding sig
Begin(e, d, sig) ==
    /\ runs < MaxRuns
    /\ runs' = runs + 1
    /\ entry' = e
    /\ date' = d
    /\ pc' = "Extracting"
    /\ raw_data' = <<>>
    /\ aggregated_df' = <<>>
    /\ long_df' = <<>>
    /\ df_to_insert' = <<>>
    /\ unmapped_signals' = <<>>
    /\ tx' = <<>>
    /\ result' = NoResult
    /\ events' = <<>>
    /\ batches' = <<>>
    /\ fault' = ""
    /\ at_start' = [data |-> data, signal |-> sig]
    /\ prev' = IF result.status = "success"
               THEN [date |-> date, status |-> result.status,
                     records_inserted |-> result.records_inserted,
                     data |-> at_start.data, signal |-> at_start.signal]
               ELSE NoPrev

\* an orchestrator is invoked for partition d
StartRun(e, d) ==
    /\ pc \in Terminal \cup {"Idle"}
    /\ Begin(e, d, signal)
    /\ UNCHANGED <<source, signal, data, chunksize, signal_mapping, loaded,
                   Outside>>

\* (variant) a request that fails is issued again, up to three times
ExtractRetry ==
    /\ pc = "Extracting"
    /\ events' = Append(events, "request")
    /\ \/ /\ \E e \in {"ReadTimeout", "HTTPStatusError"} :
                IF Len(events) < 2
                THEN /\ fault' = e
                     /\ UNCHANGED <<pc, result, tx>>
                ELSE Raise(e)
          /\ UNCHANGED raw_data
       \/ LET rows == get_data_with_filters(StartOf(date), EndOf(date))
          IN /\ raw_data' = rows
             /\ IF rows = <<>>
                THEN pc' = "Done" /\ result' = NoData
                ELSE pc' = "Aggregating" /\ result' = result
             /\ UNCHANGED <<fault, tx>>
    /\ UNCHANGED <<Kept, signal, data, signal_mapping, aggregated_df,
                   long_df, df_to_insert, unmapped_signals, batches>>

\* extract_data / lines 36-73 of the asset: one GET /data/ for
\* [start_date, end_date]; an empty answer ends the run with no_data
Extract ==
    /\ pc = "Extracting"
    /\ events' = Append(events, "request")
    /\ \/ /\ \E e \in {"ReadTimeout", "HTTPStatusError"} : Raise(e)
          /\ UNCHANGED raw_data
       \/ LET rows == get_data_with_filters(StartOf(date), EndOf(date))
          IN /\ raw_data' = rows
             /\ IF rows = <<>>
                THEN pc' = "Done" /\ result' = NoData
                ELSE pc' = "Aggregating" /\ result' = result
             /\ UNCHANGED <<fault, tx>>
    /\ UNCHANGED <<Kept, signal, data, signal_mapping, aggregated_df,
                   long_df, df_to_insert, unmapped_signals, batches>>

\* resample('10T').agg(...), concat, dropna(how='all')
Aggregate ==
    /\ pc = "Aggregating"
    /\ events' = Append(events, "aggregate")
    /\ \/ /\ Raise("AggregateError")
          /\ UNCHANGED aggregated_df
       \/ /\ aggregated_df' = ResampleAgg(raw_data)
          /\ pc' = "Normalizing"
          /\ UNCHANGED <<result, fault, tx>>
    /\ UNCHANGED <<Kept, signal, data, signal_mapping, raw_data,
                   long_df, df_to_insert, unmapped_signals, batches>>

\* reset_index, melt, dropna
Normalize ==
    /\ pc = "Normalizing"
    /\ events' = Append(events, "normalize")
    /\ \/ /\ Raise("MeltError")
          /\ UNCHANGED long_df
       \/ /\ long_df' = Melt(aggregated_df)
          /\ pc' = "Resolving"
          /\ UNCHANGED <<result, fault, tx>>
    /\ UNCHANGED <<Kept, signal, data, signal_mapping, raw_data,
                   aggregated_df, df_to_insert, unmapped_signals, batches>>

\* load_data, lines 133-152: an empty frame returns 0 at once; the registry
\* is read only while the processor's snapshot is empty; a frame that is
\* empty after the mapping returns 0, and process_date reports success
ResolveProcessDate ==
    /\ pc = "Resolving"
    /\ entry = "process_date"
    /\ IF long_df = <<>>
       THEN /\ pc' = "Done"
            /\ result' = Success(0)
            /\ events' = Append(events, "resolve")
            /\ UNCHANGED <<signal_mapping, loaded, df_to_insert,
                           unmapped_signals, fault, tx>>
       ELSE \/ /\ signal_mapping = {}
               /\ events' = events \o <<"resolve", "registry_read">>
               /\ Raise("OperationalError")
               /\ UNCHANGED <<signal_mapping, loaded, df_to_insert,
                              unmapped_signals>>
            \/ LET mapping == IF signal_mapping = {} THEN signal
                              ELSE signal_mapping
                   rows == MapSignals(long_df, mapping)
               IN /\ events' = IF signal_mapping = {}
                               THEN events \o <<"resolve", "registry_read">>
                               ELSE Append(events, "resolve")
                  /\ signal_mapping' = mapping
                  /\ loaded' = TRUE
                  /\ unmapped_signals' = Unmapped(long_df, mapping)
                  /\ df_to_insert' = rows
                  /\ IF rows = <<>>
                     THEN pc' = "Done" /\ result' = Success(0)
                     ELSE pc' = "Loading" /\ result' = result
                  /\ UNCHANGED <<fault, tx>>
    /\ UNCHANGED <<Stores, signal, data, raw_data, aggregated_df, long_df,
                   batches>>

\* (variant) the asset registers the names it does not find before mapping
ResolveAssetCreate ==
    /\ pc = "Resolving"
    /\ entry = "asset"
    /\ events' = events \o <<"resolve", "registry_read">>
    /\ \/ /\ Raise("OperationalError")
          /\ UNCHANGED <<df_to_insert, signal>>
       \/ LET created == {k \in InitialSignals :
                             /\ k.name \notin Names(signal)
                             /\ \E i \in 1..Len(long_df) :
                                    long_df[i].signal_name = k.name}
              rows == MapSignals(long_df, signal \cup created)
          IN /\ signal' = signal \cup created
             /\ df_to_insert' = rows
             /\ IF rows = <<>>
                THEN pc' = "Done" /\ result' = NoValidData
                ELSE pc' = "Loading" /\ result' = result
             /\ UNCHANGED <<fault, tx>>
    /\ UNCHANGED <<Kept, data, signal_mapping, raw_data,
                   aggregated_df, long_df, unmapped_signals, batches>>

\* the asset, lines 100-124: the registry is read in every run; an empty
\* frame after the mapping ends the run with no_valid_data
ResolveAsset ==
    /\ pc = "Resolving"
    /\ entry = "asset"
    /\ events' = events \o <<"resolve", "registry_read">>
    /\ \/ /\ Raise("OperationalError")
          /\ UNCHANGED df_to_insert
       \/ LET rows == MapSignals(long_df, signal)
          IN /\ df_to_insert' = rows
             /\ IF rows = <<>>
                THEN pc' = "Done" /\ result' = NoValidData
                ELSE pc' = "Loading" /\ result' = result
             /\ UNCHANGED <<fault, tx>>
    /\ UNCHANGED <<Kept, signal, data, signal_mapping, raw_data,
                   aggregated_df, long_df, unmapped_signals, batches>>

\* (variant) to_sql(if_exists='replace'): the commit replaces the fact table
LoadBatchReplace ==
    /\ pc = "Loading"
    /\ LET k == Len(batches) + 1
           chunk == Chunk(df_to_insert, k, chunksize)
       IN /\ batches' = Append(batches, chunk)
          /\ events' = Append(events, "write")
          /\ \/ /\ Raise("IntegrityError")
                /\ UNCHANGED data
             \/ IF k >= NumChunks(Len(df_to_insert), chunksize)
                THEN /\ data' = tx \o chunk
                     /\ tx' = <<>>
                     /\ pc' = "Done"
                     /\ result' = Success(Len(tx) + Len(chunk))
                     /\ UNCHANGED fault
                ELSE /\ tx' = tx \o chunk
                     /\ UNCHANGED <<data, pc, result, fault>>
    /\ UNCHANGED <<Kept, signal, signal_mapping, raw_data, aggregated_df,
                   long_df, df_to_insert, unmapped_signals>>

\* (variant) a rejected batch is logged and the loop goes on with the next
LoadBatchContinue ==
    /\ pc = "Loading"
    /\ LET k == Len(batches) + 1
           chunk == Chunk(df_to_insert, k, chunksize)
           last == k >= NumChunks(Len(df_to_insert), chunksize)
       IN /\ batches' = Append(batches, chunk)
          /\ events' = Append(events, "write")
          /\ \/ /\ fault' = "IntegrityError"
                /\ IF last
                   THEN /\ data' = data \o tx
                        /\ tx' = <<>>
                        /\ pc' = "Done"
                        /\ result' = Success(Len(tx))
                   ELSE UNCHANGED <<data, tx, pc, result>>
             \/ IF last
                THEN /\ data' = data \o tx \o chunk
                     /\ tx' = <<>>
                     /\ pc' = "Done"
                     /\ result' = Success(Len(tx) + Len(chunk))
                     /\ UNCHANGED fault
                ELSE /\ tx' = tx \o chunk
                     /\ UNCHANGED <<data, pc, result, fault>>
    /\ UNCHANGED <<Kept, signal, signal_mapping, raw_data, aggregated_df,
                   long_df, df_to_insert, unmapped_signals>>

\* (variant) every batch is committed as soon as the store takes it, so the
\* batches before a rejected one stay in the fact table
LoadBatchAutocommit ==
    /\ pc = "Loading"
    /\ LET k == Len(batches) + 1
           chunk == Chunk(df_to_insert, k, chunksize)
       IN /\ batches' = Append(batches, chunk)
          /\ events' = Append(events, "write")
          /\ \/ /\ Raise("IntegrityError")
                /\ UNCHANGED data
             \/ /\ data' = data \o chunk
                /\ IF k >= NumChunks(Len(df_to_insert), chunksize)
                   THEN /\ tx' = <<>>
                        /\ pc' = "Done"
                        /\ result' = Success(Len(tx) + Len(chunk))
                        /\ UNCHANGED fault
                   ELSE /\ tx' = tx \o chunk
                        /\ UNCHANGED <<pc, result, fault>>
    /\ UNCHANGED <<Kept, signal, signal_mapping, raw_data, aggregated_df,
                   long_df, df_to_insert, unmapped_signals>>

\* to_sql: the next write batch.  The store either rejects it, which ends the
\* loop and rolls the transaction back, or takes it; after the last batch
\* the transaction commits and the summed row count is returned
LoadBatch ==
    /\ pc = "Loading"
    /\ LET k == Len(batches) + 1
           chunk == Chunk(df_to_insert, k, chunksize)
       IN /\ batches' = Append(batches, chunk)
          /\ events' = Append(events, "write")
          /\ \/ /\ Raise("IntegrityError")
                /\ UNCHANGED data
             \/ IF k >= NumChunks(Len(df_to_insert), chunksize)
                THEN /\ data' = data \o tx \o chunk
                     /\ tx' = <<>>
                     /\ pc' = "Done"
                     /\ result' = Success(Len(tx) + Len(chunk))
                     /\ UNCHANGED fault
                ELSE /\ tx' = tx \o chunk
                     /\ UNCHANGED <<data, pc, result, fault>>
    /\ UNCHANGED <<Kept, signal, signal_mapping, raw_data, aggregated_df,
                   long_df, df_to_insert, unmapped_signals>>

RunStep ==
    \/ Extract
    \/ Aggregate
    \/ Normalize
    \/ ResolveProcessDate
    \/ ResolveAsset
    \/ LoadBatch

Next ==
    \/ \E e \in {"process_date", "asset"}, d \in Dates : StartRun(e, d)
    \/ Provision
    \/ NewProcessor
    \/ RunStep

Spec == Init /\ [][Next]_vars

\* Termination is checked from an empty signal table (Provision may fill it)
\* and with one row per write batch, the longest load.  Every step of a run is
\* a call that returns or fails (the source request has a 30 s timeout), so
\* the steps of a run are weakly fair.
LiveInit == Init /\ signal = {} /\ chunksize = 1

FairSpec == LiveInit /\ [][Next]_vars /\ WF_vars(RunStep)

\* The transform reads the extracted frame only: its properties are checked
\* from an empty signal table (Provision may fill it) and with the write
\* batch size of the code.
TransformInit == Init /\ signal = {} /\ chunksize = ChunkSize

TransformSpec == TransformInit /\ [][Next]_vars

\* ---- the command lines: etl_process.py --date and main.py ----------------------

Programs == {"etl_process.py", "main.py"}

\* date arguments: day 0, day 1, a date in another format, a month 13
Args == {"2025-08-10", "2025-08-11", "10/08/2025", "2025-13-01"}

\* datetime.strptime(arg, '%Y-%m-%d') as a day number; NoKey is ValueError
strptime(arg) ==
    CASE arg = "2025-08-10" -> 0
      [] arg = "2025-08-11" -> 1
      [] OTHER -> NoKey

\* (variant) the process ends with 0 whatever the status
ExitCodeZero(program, status) == 0

\* the exit code after process_date has returned: etl_process.main, line 238,
\* and main.py, lines 40-42 (no sys.exit on the other statuses)
ExitCode(program, status) ==
    IF program = "etl_process.py"
    THEN IF status \in {"success", "no_data"} THEN 0 ELSE 1
    ELSE IF status = "error" THEN 1 ELSE 0

\* the process ends with code 1 and has run no stage
ExitAtOnce ==
    /\ runs < MaxRuns
    /\ runs' = runs + 1
    /\ exit_code' = 1
    /\ pc' = "Idle"
    /\ raw_data' = <<>>
    /\ aggregated_df' = <<>>
    /\ long_df' = <<>>
    /\ df_to_insert' = <<>>
    /\ unmapped_signals' = <<>>
    /\ tx' = <<>>
    /\ result' = NoResult
    /\ events' = <<>>
    /\ batches' = <<>>
    /\ fault' = ""
    /\ prev' = NoPrev
    /\ UNCHANGED <<entry, date>>

\* a command line is started: the date is parsed (a ValueError ends the
\* process with 1), main.py prepares the target store (a failure there ends
\* the process with 1), a new ETLProcessor is made and process_date is called
CliStart(program, arg) ==
    /\ pc \in Terminal \cup {"Idle"}
    /\ argv.program = "none" \/ exit_code # NoKey
    /\ argv' = [program |-> program, date |-> arg]
    /\ signal_mapping' = {}
    /\ loaded' = FALSE
    /\ IF strptime(arg) = NoKey
       THEN /\ ExitAtOnce
            /\ at_start' = [data |-> data, signal |-> signal]
            /\ UNCHANGED signal
       ELSE \/ /\ program = "main.py"
               /\ ExitAtOnce
               /\ at_start' = [data |-> data, signal |-> signal]
               /\ UNCHANGED signal
            \/ /\ signal' = IF program = "main.py" THEN Provisioned(signal)
                            ELSE signal
               /\ Begin("process_date", strptime(arg), signal')
               /\ exit_code' = NoKey
    /\ UNCHANGED <<source, data, chunksize, request, response, other>>

\* process_date has returned and the process ends
CliExit ==
    /\ pc \in Terminal
    /\ argv.program # "none"
    /\ exit_code = NoKey
    /\ exit_code' = ExitCode(argv.program, result.status)
    /\ UNCHANGED <<source, signal, data, chunksize, signal_mapping, loaded,
                   entry, date, pc, raw_data, aggregated_df, long_df,
                   df_to_insert, unmapped_signals, tx, result, runs, events,
                   batches, fault, at_start, prev, argv, request, response,
                   other>>

CliNext ==
    \/ \E program \in Programs, arg \in Args : CliStart(program, arg)
    \/ Extract
    \/ Aggregate
    \/ Normalize
    \/ ResolveProcessDate
    \/ LoadBatch
    \/ CliExit

\* the command lines write with the batch size of the code
CliInit == Init /\ chunksize = ChunkSize

CliSpec == CliInit /\ [][CliNext]_vars

\* ---- a client of the source API other than the pipeline ------------------------

\* GET /data/ with the given parameters.  The handler keeps no state between
\* requests, so one request per behaviour shows every answer it can give
ApiRequest(start_date, end_date, variable_list) ==
    /\ response = NoResponse
    /\ request' = [start_date |-> start_date, end_date |-> end_date,
                   variables |-> variable_list]
    /\ response' \in get_data(start_date, end_date, variable_list)
    /\ UNCHANGED <<source, signal, data, chunksize, signal_mapping, loaded,
                   entry, date, pc, raw_data, aggregated_df, long_df,
                   df_to_insert, unmapped_signals, tx, result, runs, events,
                   batches, fault, at_start, prev, argv, exit_code, other>>

ApiNext ==
    \E start_date \in StartDates, end_date \in EndDates,
       variable_list \in VariableLists :
        ApiRequest(start_date, end_date, variable_list)

\* the API reads the source store only
ApiInit == Init /\ signal = {} /\ chunksize = ChunkSize

ApiSpec == ApiInit /\ [][ApiNext]_vars

\* ---- two runs of the asset for different partitions, interleaved ---------------

\* (variant) the two runs write through one connection: the open transaction
\* is not local to a run
SwitchSharedTx ==
    /\ other.pc # "Idle"
    /\ other' = Local
    /\ entry' = other.entry
    /\ date' = other.date
    /\ pc' = other.pc
    /\ raw_data' = other.raw_data
    /\ aggregated_df' = other.aggregated_df
    /\ long_df' = other.long_df
    /\ df_to_insert' = other.df_to_insert
    /\ unmapped_signals' = other.unmapped_signals
    /\ result' = other.result
    /\ events' = other.events
    /\ batches' = other.batches
    /\ fault' = other.fault
    /\ at_start' = other.at_start
    /\ UNCHANGED <<source, signal, data, chunksize, signal_mapping, loaded,
                   runs, prev, argv, exit_code, request, response, tx>>

\* the scheduler lets the other run take the next steps: the stepping run's
\* local state is set aside and the other's is taken up
Switch ==
    /\ other.pc # "Idle"
    /\ other' = Local
    /\ entry' = other.entry
    /\ date' = other.date
    /\ pc' = other.pc
    /\ raw_data' = other.raw_data
    /\ aggregated_df' = other.aggregated_df
    /\ long_df' = other.long_df
    /\ df_to_insert' = other.df_to_insert
    /\ unmapped_signals' = other.unmapped_signals
    /\ tx' = other.tx
    /\ result' = other.result
    /\ events' = other.events
    /\ batches' = other.batches
    /\ fault' = other.fault
    /\ at_start' = other.at_start
    /\ UNCHANGED <<source, signal, data, chunksize, signal_mapping, loaded,
                   runs, prev, argv, exit_code, request, response>>

\* the scheduler launches the asset for partition d while no run is stepping
\* here; a run that is under way is set aside.  The two runs have
\* different partitions
Launch(d) ==
    /\ other.pc = "Idle"
    /\ pc = "Idle" \/ date # d
    /\ other' = Local
    /\ Begin("asset", d, signal)
    /\ UNCHANGED <<source, signal, data, chunksize, signal_mapping, loaded,
                   argv, exit_code, request, response>>

ParNext ==
    \/ \E d \in Dates : Launch(d)
    \/ Switch
    \/ Extract
    \/ Aggregate
    \/ Normalize
    \/ ResolveAsset
    \/ LoadBatch

\* the signal table holds the wind_speed signals, so that rows are loaded
ParInit == Init /\ signal = WindSignals

ParSpec == ParInit /\ [][ParNext]_vars

TypeOK ==
    /\ pc \in {"Idle", "Extracting", "Aggregating", "Normalizing",
               "Resolving", "Loading", "Done", "Error"}
    /\ runs \in 0..MaxRuns
    /\ loaded \in BOOLEAN
    /\ signal_mapping # {} => loaded

\* ---- properties -----------------------------------------------------------

\* the source answered the request of this run (no fault in extraction)
Extracted ==
    /\ pc \notin {"Idle", "Extracting"}
    /\ ~(pc = "Error" /\ events = <<"request">>)

\* the rows of this run reached the resolver and none of them has an id
EmptyLoadStream ==
    /\ pc = "Done"
    /\ raw_data # <<>>
    /\ df_to_insert = <<>>

\* C1: a run whose extraction returned samples but whose registry holds none
\* of the normalized rows' names ends with status no_valid_data, with
\* records_inserted = 0 and the fact table untouched, under both orchestrators.
C1_NoValidData ==
    EmptyLoadStream =>
        /\ result.status = "no_valid_data"
        /\ result.records_inserted = 0
        /\ data = at_start.data

\* C2: when the source returns no rows for the partition, the run goes
\* from Extracting straight to Done(no_data) with records_inserted = 0; the
\* source request is the run's only event: no aggregation, no registry read,
\* no write to the target store.
C2_NoData ==
    (Extracted /\ raw_data = <<>>) =>
        /\ pc = "Done"
        /\ result.status = "no_data"
        /\ result.records_inserted = 0
        /\ events = <<"request">>
        /\ batches = <<>>
        /\ data = at_start.data

C2_Witness ==
    /\ pc = "Done"
    /\ result.status = "no_data"
    /\ source # {}
    /\ entry = "asset"

\* C3: a fault raised in any stage is not propagated: the run ends in Error
\* with a result of status error that carries the fault description and
\* records_inserted = 0.
C3_FaultToError ==
    /\ fault # "" =>
        /\ pc = "Error"
        /\ result.status = "error"
        /\ result.error = fault
        /\ result.records_inserted = 0
    /\ pc = "Error" => fault # ""

C3_Witness ==
    /\ pc = "Error"
    /\ fault = "IntegrityError"
    /\ Len(batches) >= 2
    /\ result.status = "error"

\* C4: every run that is started reaches a terminal state, Done or Error, and
\* takes no further step after it: until another run is started, the stage,
\* the result, the fact table and the run's events stay as they are.
C4_Terminates ==
    /\ (pc = "Extracting") ~> (pc \in Terminal)
    /\ [][(pc \in Terminal /\ runs' = runs) =>
            /\ pc' = pc
            /\ result' = result
            /\ data' = data
            /\ events' = events]_vars

C4_Witness ==
    /\ pc = "Done"
    /\ result.status = "success"
    /\ runs = 2
    /\ prev.status = "success"

Rank(p) ==
    CASE p = "Extracting" -> 1
      [] p = "Aggregating" -> 2
      [] p = "Normalizing" -> 3
      [] p = "Resolving" -> 4
      [] p = "Loading" -> 5
      [] p = "Done" -> 6
      [] OTHER -> 0

\* C5: within a run the stage only moves forward along Extracting, Aggregating,
\* Normalizing, Resolving, Loading, Done: from a stage to the next one or to
\* Done; the only other move is from a stage to Error.  A run begins in
\* Extracting.
C5_StageOrder ==
    [][pc' # pc =>
        \/ /\ pc \in Terminal \cup {"Idle"}
           /\ pc' = "Extracting"
           /\ runs' = runs + 1
        \/ /\ Rank(pc) \in 1..5
           /\ runs' = runs
           /\ \/ pc' = "Error"
              \/ pc' = "Done"
              \/ Rank(pc') = Rank(pc) + 1]_vars

C5_Witness ==
    /\ pc = "Done"
    /\ events = <<"request", "aggregate", "normalize", "resolve",
                  "registry_read", "write", "write">>

\* the stored rows of partition d in the half-open range [start, end)
HalfOpenRows(d) ==
    OrderByTimestamp({r \in source :
        StartOf(d) <= r.timestamp /\ r.timestamp < EndOf(d)})

\* C6: the Source Reader returns exactly the stored samples with
\* start <= timestamp < end; a sample stamped end is not returned.
C6_HalfOpen ==
    Extracted => raw_data = HalfOpenRows(date)

IsPrefix(s, t) == Len(s) <= Len(t) /\ SubSeq(t, 1, Len(s)) = s

\* this run and the previous one both succeeded for the same partition, the
\* previous one on an empty fact table, with the same signal table
SecondOfTwo ==
    /\ pc = "Done"
    /\ result.status = "success"
    /\ prev.status = "success"
    /\ prev.date = date
    /\ prev.data = <<>>
    /\ prev.signal = at_start.signal

\* C7: the load only appends.  Two successful runs of the same partition over
\* the same source and registry, the first on an empty fact table, leave
\* 2 * N rows, N being the records_inserted of either run; the rows that were
\* in the fact table when a run started are still there, in place.
C7_AppendTwice ==
    /\ IsPrefix(at_start.data, data)
    /\ SecondOfTwo =>
        /\ prev.records_inserted = result.records_inserted
        /\ Len(data) = 2 * result.records_inserted

C7_Witness ==
    /\ SecondOfTwo
    /\ result.records_inserted > 0

\* C8: a load of N >= 0 records that no batch fails persists exactly these N
\* rows after the rows already there, whatever the batch size, and N is the
\* count returned.
C8_RoundTrip ==
    (pc = "Done" /\ result.status = "success") =>
        /\ data = at_start.data \o df_to_insert
        /\ result.records_inserted = Len(df_to_insert)

C8_Witness ==
    /\ pc = "Done"
    /\ result.status = "success"
    /\ Len(batches) >= 2
    /\ Len(batches[Len(batches)]) < chunksize
    /\ at_start.data # <<>>

CeilDiv(n, b) == (n + b - 1) \div b

\* the sizes of the batches to_sql issues for nrows rows
BatchSizes(nrows, size) ==
    [k \in 1..NumChunks(nrows, size) |->
        ChunkEnd(k - 1, size, nrows) - ChunkStart(k - 1, size)]

\* C9: a failure-free load of N > 0 rows with batch size B issues ceil(N/B)
\* batches in input order, each of B rows but the last, which holds
\* N - B * (ceil(N/B) - 1) rows, and N is the count returned; 2500 rows in
\* batches of 1000 are three batches of 1000, 1000 and 500 rows.
C9_Batches ==
    /\ (pc = "Done" /\ batches # <<>>) =>
        LET n == Len(df_to_insert)
            c == CeilDiv(n, chunksize)
        IN /\ Len(batches) = c
           /\ \A k \in 1..(c - 1) : Len(batches[k]) = chunksize
           /\ Len(batches[c]) = n - chunksize * (c - 1)
           /\ FlattenSeq(batches) = df_to_insert
           /\ result.records_inserted = n
    /\ BatchSizes(2500, ChunkSize) = <<1000, 1000, 500>>
    /\ SumSeq(BatchSizes(2500, ChunkSize)) = 2500

C9_Witness ==
    /\ pc = "Done"
    /\ chunksize = 2
    /\ Len(df_to_insert) = 3
    /\ Len(batches) = 2

\* C10: once the target store has rejected a batch, the run is in Error with
\* a result of status error and issues no further batch.
C10_AbortOnReject ==
    [][(fault = "IntegrityError" /\ runs' = runs) =>
        /\ pc = "Error"
        /\ result.status = "error"
        /\ pc' = "Error"
        /\ batches' = batches]_vars

C10_Witness ==
    /\ pc = "Error"
    /\ fault = "IntegrityError"
    /\ Len(batches) >= 2
    /\ Len(batches) < NumChunks(Len(df_to_insert), chunksize)

RECURSIVE IsResolution(_, _, _)
IsResolution(out, df, snap) ==
    IF df = <<>> THEN out = <<>>
    ELSE LET r == Head(df)
         IN IF \E k \in snap : k.name = r.signal_name
            THEN /\ out # <<>>
                 /\ Head(out).timestamp = r.timestamp
                 /\ Head(out).value = r.value
                 /\ [id |-> Head(out).signal_id, name |-> r.signal_name]
                        \in snap
                 /\ IsResolution(Tail(out), Tail(df), snap)
            ELSE IsResolution(out, Tail(df), snap)

\* list holds every name of df that is no key of snap, each exactly once
IsUnresolvedList(list, df, snap) ==
    /\ {list[i] : i \in 1..Len(list)}
         = {df[i].signal_name : i \in 1..Len(df)} \ {k.name : k \in snap}
    /\ \A i, j \in 1..Len(list) : list[i] = list[j] => i = j

\* C12: a resolve step that completes leaves as load stream exactly the
\* normalized rows whose signal_name is a key of the registry snapshot it
\* used, each with that key's signal_id and its timestamp and value
\* unchanged; rows with other names are dropped, and the unresolved list of
\* load_data holds each of those names exactly once
C12_LookupFilter ==
    [][(pc = "Resolving" /\ pc' \in {"Loading", "Done"} /\ long_df # <<>>)
          => /\ IsResolution(df_to_insert', long_df,
                             IF entry = "asset" THEN signal
                             ELSE signal_mapping')
             /\ entry = "process_date"
                  => IsUnresolvedList(unmapped_signals', long_df,
                                      signal_mapping')]_vars

\* load_data has dropped the rows of an absent name that came in more rows
\* than one and kept the others
C12_Witness ==
    /\ pc = "Loading"
    /\ entry = "process_date"
    /\ df_to_insert # <<>>
    /\ unmapped_signals # <<>>
    /\ Len(long_df) - Len(df_to_insert) > Len(unmapped_signals)

\* C13: no step of a partition run, from the invocation of process_date or
\* processed_sensor_data to its outcome, changes the rows of the signal
\* table, also when normalized rows carried names the table does not hold
C13_SignalUntouched ==
    [][(pc \notin Terminal \cup {"Idle"} \/ runs' # runs)
          => signal' = signal]_vars

\* a run of the asset has loaded rows and dropped rows with unknown names
C13_Witness ==
    /\ pc = "Done"
    /\ entry = "asset"
    /\ result.status = "success"
    /\ signal = at_start.signal
    /\ \E i \in 1..Len(long_df) : long_df[i].signal_name \notin Names(signal)

\* C14: once load_signal_mapping has returned on a processor, no later step
\* of that processor changes the contents of its snapshot, whether the
\* loaded snapshot was empty or not and whatever happens to the signal table
C14_SnapshotImmutable ==
    [][(loaded /\ loaded') => signal_mapping' = signal_mapping]_vars

\* ---- the statistics of a bucket, from the extracted samples ------------------

\* the aggregation has just put out the wide frame of this run
Aggregated == pc = "Normalizing"

\* the normalizer has just put out the long frame of this run
Normalized == pc = "Resolving"

Metrics == {"wind_speed", "power"}
Stats == {"mean", "min", "max", "std"}

StatName ==
    [wind_speed |-> [mean |-> "wind_speed_mean", min |-> "wind_speed_min",
                     max |-> "wind_speed_max", std |-> "wind_speed_std"],
     power |-> [mean |-> "power_mean", min |-> "power_min",
                max |-> "power_max", std |-> "power_std"]]

\* position of a statistic of a metric in a row of the wide frame
StatAt(m, st) ==
    (IF m = "wind_speed" THEN 0 ELSE 4)
        + (CASE st = "mean" -> 1 [] st = "min" -> 2 [] st = "max" -> 3
             [] OTHER -> 4)

BucketStart(t) == (t \div BucketWidth) * BucketWidth

\* the extracted samples of the bucket starting at b
SamplesOf(b) ==
    {i \in 1..Len(raw_data) : BucketStart(raw_data[i].timestamp) = b}

ValueOf(i, m) ==
    IF m = "wind_speed" THEN raw_data[i].wind_speed ELSE raw_data[i].power

RECURSIVE SumOver(_, _)
SumOver(S, m) ==
    IF S = {} THEN 0
    ELSE LET i == CHOOSE x \in S : TRUE
         IN ValueOf(i, m) + SumOver(S \ {i}, m)

\* the buckets from the earliest sample's to the latest's, and every
\* timestamp of a normalized row
Buckets ==
    {b \in BucketStart(raw_data[1].timestamp)
             ..BucketStart(raw_data[Len(raw_data)].timestamp) :
        b % BucketWidth = 0}
      \cup {long_df[i].timestamp : i \in 1..Len(long_df)}

\* the normalized rows of bucket b for statistic st of metric m
RowsFor(b, m, st) ==
    {i \in 1..Len(long_df) :
        /\ long_df[i].timestamp = b
        /\ long_df[i].signal_name = StatName[m][st]}

\* the rows of the wide frame for bucket b
WideFor(b) == {j \in 1..Len(aggregated_df) : aggregated_df[j].timestamp = b}

Whole(v) == [num |-> v, den |-> 1]

\* C15: for a bucket with exactly one sample v of a metric the aggregation
\* yields mean = min = max = v and an undefined standard deviation, and the
\* normalized rows of the bucket hold the mean, min and max rows of the
\* metric, each once with value v, and no standard deviation row
C15_SingleSample ==
    Normalized =>
        \A b \in Buckets : \A m \in Metrics :
            Cardinality(SamplesOf(b)) = 1 =>
                LET v == ValueOf(CHOOSE i \in SamplesOf(b) : TRUE, m)
                IN /\ Cardinality(WideFor(b)) = 1
                   /\ \A j \in WideFor(b) :
                        /\ \A st \in {"mean", "min", "max"} :
                             aggregated_df[j].stats[StatAt(m, st)] = Whole(v)
                        /\ aggregated_df[j].stats[StatAt(m, "std")] = NaN
                   /\ \A st \in {"mean", "min", "max"} :
                        /\ Cardinality(RowsFor(b, m, st)) = 1
                        /\ \A i \in RowsFor(b, m, st) :
                             long_df[i].value = Whole(v)
                   /\ RowsFor(b, m, "std") = {}

\* the normalizer has put out the rows of a bucket with a single sample
C15_Witness ==
    /\ Normalized
    /\ \E b \in Buckets :
          /\ Cardinality(SamplesOf(b)) = 1
          /\ RowsFor(b, "power", "mean") # {}
          /\ RowsFor(b, "power", "std") = {}

\* the rearrangements of a frame's rows
Permutations(df) ==
    {[i \in 1..Len(df) |-> df[f[i]]] :
        f \in {g \in [1..Len(df) -> 1..Len(df)] :
                  \A a, b \in 1..Len(df) : g[a] = g[b] => a = b}}

\* C16: every sample at instant t is aggregated in the bucket that starts at
\* the largest multiple of the width not above t, wherever the first sample
\* lies, and the aggregation of any rearrangement of the extracted rows has
\* the same rows as the aggregation of the rows in their order
C16_AbsoluteBuckets ==
    Aggregated =>
        /\ \A i \in 1..Len(raw_data) :
              \E j \in 1..Len(aggregated_df) :
                 LET b == aggregated_df[j].timestamp
                     t == raw_data[i].timestamp
                 IN b % BucketWidth = 0 /\ b <= t /\ t < b + BucketWidth
        /\ \A j \in 1..Len(aggregated_df) :
              LET b == aggregated_df[j].timestamp
                  S == {i \in 1..Len(raw_data) :
                           /\ b <= raw_data[i].timestamp
                           /\ raw_data[i].timestamp < b + BucketWidth}
                  r == aggregated_df[j].stats[StatAt("wind_speed", "mean")]
              IN /\ b % BucketWidth = 0
                 /\ S # {}
                 /\ r.den > 0
                 /\ r.num * Cardinality(S) = SumOver(S, "wind_speed") * r.den
        /\ \A df \in Permutations(raw_data) :
              LET again == ResampleAgg(df)
              IN {again[j] : j \in 1..Len(again)}
                   = {aggregated_df[j] : j \in 1..Len(aggregated_df)}

\* two samples in different buckets, the first not at the start of its bucket
C16_Witness ==
    /\ Aggregated
    /\ Len(raw_data) >= 2
    /\ raw_data[1].timestamp % BucketWidth # 0
    /\ Len(aggregated_df) >= 2

\* C17: every normalized row has a defined value; a row for a bucket, a
\* metric and a statistic is there, once, exactly when the bucket holds at
\* least one sample (at least two for the standard deviation); buckets
\* without samples, those between two samples included, have no row
C17_RowsDefined ==
    Normalized =>
        /\ \A i \in 1..Len(long_df) :
              long_df[i].value # NaN /\ long_df[i].value.den > 0
        /\ \A b \in Buckets :
              LET k == Cardinality(SamplesOf(b))
              IN \A m \in Metrics : \A st \in Stats :
                    /\ Cardinality(RowsFor(b, m, st)) <= 1
                    /\ RowsFor(b, m, st) # {}
                         <=> k >= (IF st = "std" THEN 2 ELSE 1)

\* two buckets with samples and an empty bucket between them
C17_Witness ==
    /\ Normalized
    /\ \E b \in Buckets :
          /\ SamplesOf(b) = {}
          /\ SamplesOf(b - BucketWidth) # {}
          /\ SamplesOf(b + BucketWidth) # {}

\* C18: for a bucket with k >= 2 samples of a metric the mean row holds
\* (v1 + ... + vk) / k, the min and max rows the least and the greatest
\* sample, and all four statistics of the metric have a row; the samples
\* 5, 6, ..., 14 give mean 9.5, min 5, max 14 and a standard deviation
\* that is not zero
C18_Statistics ==
    /\ LET a == Agg(<<5, 6, 7, 8, 9, 10, 11, 12, 13, 14>>)
       IN /\ a[1] = [num |-> 19, den |-> 2]
          /\ a[2] = Whole(5)
          /\ a[3] = Whole(14)
          /\ a[4] # NaN /\ a[4].num # 0
    /\ Normalized =>
          \A b \in Buckets : \A m \in Metrics :
              LET S == SamplesOf(b)
                  val(st) == long_df[CHOOSE i \in RowsFor(b, m, st) : TRUE]
                                 .value
              IN Cardinality(S) >= 2 =>
                    /\ \A st \in Stats : Cardinality(RowsFor(b, m, st)) = 1
                    /\ val("mean").den > 0
                    /\ val("mean").num * Cardinality(S)
                          = SumOver(S, m) * val("mean").den
                    /\ val("min").den = 1
                    /\ \A i \in S : val("min").num <= ValueOf(i, m)
                    /\ \E i \in S : val("min").num = ValueOf(i, m)
                    /\ val("max").den = 1
                    /\ \A i \in S : val("max").num >= ValueOf(i, m)
                    /\ \E i \in S : val("max").num = ValueOf(i, m)

\* a bucket with two samples of different wind speed has been normalized
C18_Witness ==
    /\ Normalized
    /\ \E b \in Buckets :
          /\ Cardinality(SamplesOf(b)) = 2
          /\ \E i \in RowsFor(b, "wind_speed", "mean") :
                long_df[i].value.den = 2
          /\ RowsFor(b, "wind_speed", "std") # {}

\* place of a signal name in the alphabetical order of the names
NameRank ==
    [power_max |-> 1, power_mean |-> 2, power_min |-> 3, power_std |-> 4,
     wind_speed_max |-> 5, wind_speed_mean |-> 6, wind_speed_min |-> 7,
     wind_speed_std |-> 8]

\* C19: the normalized rows are ordered by timestamp and then by signal_name:
\* of two consecutive rows the first has the smaller timestamp, or the same
\* timestamp and the smaller signal_name
C19_Ordered ==
    Normalized =>
        \A i \in 1..(Len(long_df) - 1) :
            \/ long_df[i].timestamp < long_df[i + 1].timestamp
            \/ /\ long_df[i].timestamp = long_df[i + 1].timestamp
               /\ NameRank[long_df[i].signal_name]
                    < NameRank[long_df[i + 1].signal_name]

\* C20: a successful run reports as intervals_processed the number of
\* distinct 10-minute buckets that hold a raw sample, as records_processed
\* the number of raw samples and as records_inserted the number of rows it
\* added to the fact table
C20_Counts ==
    (pc = "Done" /\ result.status = "success") =>
        /\ result.intervals_processed
             = Cardinality({BucketStart(raw_data[i].timestamp) :
                               i \in 1..Len(raw_data)})
        /\ result.records_processed = Len(raw_data)
        /\ result.records_inserted = Len(data) - Len(at_start.data)

\* C21: a command line with a well-formed date ends with code 0 when
\* process_date returned success or no_data and with another code when it
\* returned error; with a malformed date it ends with a code other than 0
\* and has issued no source request and run no stage; for both programs
C21_ExitCodes ==
    exit_code # NoKey =>
        IF strptime(argv.date) = NoKey
        THEN exit_code # 0 /\ pc = "Idle" /\ events = <<>>
        ELSE IF pc = "Idle"
        THEN exit_code # 0
        ELSE /\ pc \in Terminal
             /\ result.status \in {"success", "no_data"} => exit_code = 0
             /\ result.status = "error" => exit_code # 0

\* main.py has ended with 1 after a run with status error
C21_Witness ==
    /\ exit_code = 1
    /\ argv.program = "main.py"
    /\ strptime(argv.date) # NoKey
    /\ pc = "Error"
    /\ result.status = "error"

\* C22: a GET /data/ whose variables list holds a name outside the
\* allow-list is answered with 400 and no query on the source store; one
\* whose names are all in the allow-list and whose dates parse is answered by
\* the query, and every row of the answer holds exactly the columns asked for
C22_AllowList ==
    LET asked == {request.variables[i] : i \in 1..Len(request.variables)}
        allowed == {"timestamp", "wind_speed", "power", "ambient_temprature"}
    IN response # NoResponse =>
          /\ ~(asked \subseteq allowed) =>
                /\ response.status = 400
                /\ ~response.queried
                /\ response.data = <<>>
          /\ (asked \subseteq allowed /\ asked # {}
                /\ (request.start_date = ""
                      \/ fromisoformat(request.start_date) >= 0)
                /\ (request.end_date = ""
                      \/ fromisoformat(request.end_date) >= 0)) =>
                /\ response.status \in {200, 500}
                /\ response.status = 200 =>
                      \A i \in 1..Len(response.data) :
                          DOMAIN response.data[i] = asked

\* an answer with rows that hold the two columns asked for, and no other
C22_Witness ==
    /\ response.status = 200
    /\ request.variables = <<"power", "ambient_temprature">>
    /\ Len(response.data) = 2
    /\ DOMAIN response.data[1] = {"power", "ambient_temprature"}

\* the number of times event e is in the history of this run
Times(e) == Cardinality({i \in 1..Len(events) : events[i] = e})

\* C23: a run issues at most one request to the source API and makes at most
\* one load attempt (every write batch of the one to_sql call is issued
\* once); no stage is entered twice; and when the source request times out
\* or returns an HTTP error the run ends with status error, that request
\* being the only call it has made
C23_NoRetry ==
    /\ \A e \in {"request", "aggregate", "normalize", "resolve",
                 "registry_read"} : Times(e) <= 1
    /\ Times("write") = Len(batches)
    /\ Len(batches) <= NumChunks(Len(df_to_insert), chunksize)
    /\ \A k \in 1..Len(batches) : batches[k] = Chunk(df_to_insert, k, chunksize)
    /\ fault \in {"ReadTimeout", "HTTPStatusError"} =>
          /\ pc = "Error"
          /\ result.status = "error"
          /\ events = <<"request">>

\* the source request of the second run has timed out
C23_Witness ==
    /\ pc = "Error"
    /\ fault = "ReadTimeout"
    /\ events = <<"request">>
    /\ runs = 2

\* ---- what the asset does for partition d when no other run is under way -----

AloneRaw(d) == get_data_with_filters(StartOf(d), EndOf(d))

AloneWide(d) == IF AloneRaw(d) = <<>> THEN <<>> ELSE ResampleAgg(AloneRaw(d))

\* the rows it writes, f being the fault it meets ("" for none)
AloneRows(d, f) ==
    IF f # "" THEN <<>> ELSE MapSignals(Melt(AloneWide(d)), signal)

\* the result it returns
AloneResult(d, f) ==
    IF f # "" THEN Result("error", 0, 0, 0, f)
    ELSE IF AloneRaw(d) = <<>> THEN Result("no_data", 0, 0, 0, "")
    ELSE IF AloneRows(d, f) = <<>>
    THEN Result("no_valid_data", Len(AloneRaw(d)), 0, 0, "")
    ELSE Result("success", Len(AloneRaw(d)), Len(AloneRows(d, f)),
                Len(AloneWide(d)), "")

Occurrences(rows, r) == Cardinality({i \in 1..Len(rows) : rows[i] = r})

\* C24: however the steps of two runs of the asset for different partitions
\* are interleaved, each run returns the result it returns alone (with the
\* fault it met, if any), and when both have ended the fact table holds
\* every row as many times as the two runs write it alone
C24_NoInterference ==
    /\ pc \in Terminal => result = AloneResult(date, fault)
    /\ other.pc \in Terminal
          => other.result = AloneResult(other.date, other.fault)
    /\ (pc \in Terminal /\ other.pc \in Terminal) =>
          LET mine == AloneRows(date, fault)
              theirs == AloneRows(other.date, other.fault)
          IN /\ Len(data) = Len(mine) + Len(theirs)
             /\ \A i \in 1..Len(data) :
                   Occurrences(data, data[i])
                     = Occurrences(mine, data[i])
                         + Occurrences(theirs, data[i])

\* the two runs overlapped (each started before the other had written) and
\* both have ended with rows written, in more than one batch each
C24_Witness ==
    /\ pc = "Done"
    /\ other.pc = "Done"
    /\ result.records_inserted > 0
    /\ other.result.records_inserted > 0
    /\ at_start.data = <<>>
    /\ other.at_start.data = <<>>
    /\ Len(batches) >= 2
    /\ Len(other.batches) >= 2

\* C25: provisioning fills an empty signal table with the 8 initial names,
\* ids 1 to 8, and leaves a table that holds rows as it is: no step changes
\* a signal table that is not empty, and every start of main.py, which
\* provisions before its run, leaves the name -> id mapping it found
C25_Idempotent ==
    [][/\ signal' # signal => signal = {}
       /\ (argv'.program = "main.py" /\ pc' = "Extracting"
             /\ runs' = runs + 1) =>
             /\ signal # {} => signal' = signal
             /\ signal = {} =>
                   /\ Cardinality(signal') = 8
                   /\ {k.id : k \in signal'} = 1..8
                   /\ {k.name : k \in signal'}
                        = {"wind_speed_mean", "wind_speed_min",
                           "wind_speed_max", "wind_speed_std", "power_mean",
                           "power_min", "power_max", "power_std"}]_vars

\* main.py has provisioned again a table that an earlier provisioning filled
C25_Witness ==
    /\ argv.program = "main.py"
    /\ runs = 2
    /\ pc = "Extracting"
    /\ prev.signal = InitialSignals
    /\ signal = InitialSignals

\* the rows the run that has just succeeded wrote
Written == SubSeq(data, Len(at_start.data) + 1, Len(data))

\* the rows the previous run wrote
WrittenBefore == SubSeq(at_start.data, Len(prev.data) + 1, Len(at_start.data))

\* C26: every row a run for date D writes has D 00:00 <= timestamp <
\* (D+1) 00:00, also when the source holds a sample stamped (D+1) 00:00;
\* two runs for different dates write no row with the same
\* (timestamp, signal_id).
C26_DayOwnsRows ==
    (pc = "Done" /\ result.status = "success") =>
        /\ \A i \in 1..Len(Written) :
              /\ StartOf(date) <= Written[i].timestamp
              /\ Written[i].timestamp < EndOf(date)
        /\ (prev.status = "success" /\ prev.date # date) =>
              \A i \in 1..Len(Written), j \in 1..Len(WrittenBefore) :
                 ~ /\ Written[i].timestamp = WrittenBefore[j].timestamp
                   /\ Written[i].signal_id = WrittenBefore[j].signal_id

\* the rows processed_sensor_data writes for partition d over the signal
\* table sig, f being the fault the run meets ("" for none)
AssetRows(d, f, sig) ==
    IF f # "" THEN <<>> ELSE MapSignals(Melt(AloneWide(d)), sig)

\* the result processed_sensor_data returns for it
AssetResult(d, f, sig) ==
    IF f # "" THEN Result("error", 0, 0, 0, f)
    ELSE IF AloneRaw(d) = <<>> THEN Result("no_data", 0, 0, 0, "")
    ELSE IF AssetRows(d, f, sig) = <<>>
    THEN Result("no_valid_data", Len(AloneRaw(d)), 0, 0, "")
    ELSE Result("success", Len(AloneRaw(d)), Len(AssetRows(d, f, sig)),
                Len(AloneWide(d)), "")

\* C27: the two orchestrators are equivalent.  For every source content,
\* signal table and load outcome, a run of process_date writes the rows
\* processed_sensor_data writes for the same partition and returns the same
\* status, records_processed, records_inserted and intervals_processed.
C27_Equivalent ==
    (entry = "process_date" /\ pc \in Terminal) =>
        LET asset == AssetResult(date, fault, at_start.signal)
        IN /\ Written = AssetRows(date, fault, at_start.signal)
           /\ result.status = asset.status
           /\ result.records_processed = asset.records_processed
           /\ result.records_inserted = asset.records_inserted
           /\ result.intervals_processed = asset.intervals_processed

\* the signal table this run resolved against is the one
\* insert_initial_signals produces
ResolvedOnInitial ==
    /\ pc \in {"Loading", "Done"}
    /\ long_df # <<>>
    /\ \/ entry = "asset" /\ at_start.signal = InitialSignals
       \/ entry = "process_date" /\ signal_mapping = InitialSignals

\* C28: every signal_name the transform emits is one of the 8 names
\* insert_initial_signals inserts; a run that resolves against that signal
\* table drops no row and its list of unmapped names is empty.
C28_NamesProvisioned ==
    /\ Normalized =>
          \A i \in 1..Len(long_df) :
             \E k \in InitialSignals : k.name = long_df[i].signal_name
    /\ ResolvedOnInitial =>
          /\ Len(df_to_insert) = Len(long_df)
          /\ \A i \in 1..Len(long_df) :
                df_to_insert[i].timestamp = long_df[i].timestamp
          /\ unmapped_signals = <<>>

\* a run resolved rows of all 8 names against the provisioned signal table
C28_Witness ==
    /\ ResolvedOnInitial
    /\ entry = "process_date"
    /\ pc = "Loading"
    /\ {long_df[i].signal_name : i \in 1..Len(long_df)}
         = {k.name : k \in InitialSignals}

=============================================================================
